---- MODULE Spec2Model ----
(***************************************************************************)
(* Model of the Open-Meteo MCP server (src/server.py): the three tools     *)
(* get_current_weather, get_forecast and get_location, and the shared      *)
(* helper make_openmeteo_request.  Each tool call is a coroutine; the      *)
(* model follows every call from its invocation, through the opening of    *)
(* its httpx.AsyncClient, the single GET it awaits, the upstream's answer, *)
(* the try/except of the helper and the release of the client, to the      *)
(* value the tool returns.                                                 *)
(***************************************************************************)
EXTENDS Integers, Sequences, FiniteSets, TLC

\* ------------------------------------------------------------------ bounds
\* Number of tool calls that may be in flight at once (ConcSpec).
NumCalls == 2
\* How far beyond the validated ranges the integer arguments are drawn.
Margin == 2

\* ------------------------------------------------- constants of the program
MinForecastDays == 1
MaxForecastDays == 16
MinCount == 1
MaxCount == 10

OPENMETEO_API_BASE == "https://api.open-meteo.com/v1"
GEOCODING_API_BASE == "https://geocoding-api.open-meteo.com/v1"

Tools == {"get_current_weather", "get_forecast", "get_location"}

Calls == 1..NumCalls

\* ------------------------------------------------------------ Python values
\* A Python value is a record of its type, its text (for a str, and a label
\* of the contents for a list or a dict) and its magnitude (the number for an
\* int or a bool, the length for a list or a dict).
PyStr(s) == [t |-> "str", s |-> s, n |-> 0]
None == [t |-> "NoneType", s |-> "", n |-> 0]
PyBool(b) == [t |-> "bool", s |-> "", n |-> IF b THEN 1 ELSE 0]
PyInt(i) == [t |-> "int", s |-> "", n |-> i]
PyList(label, len) == [t |-> "list", s |-> label, n |-> len]
PyDict(label, len) == [t |-> "dict", s |-> label, n |-> len]
\* The value of a variable that has not been assigned yet.
Unset == [t |-> "unset", s |-> "", n |-> 0]

IsStr(v) == v.t = "str"

\* Python's truth test, as `not data` applies it.
Truthy(v) ==
    CASE v.t = "NoneType" -> FALSE
      [] v.t = "str" -> v.s # ""
      [] v.t \in {"bool", "int", "list", "dict"} -> v.n # 0
      [] OTHER -> TRUE

\* response.json(): the bodies the upstream may send that decode as JSON,
\* each with the Python value it decodes to.  Any other body makes json()
\* raise.
JsonText ==
    ("{}" :> PyDict("", 0)) @@
    ("[]" :> PyList("", 0)) @@
    ("null" :> None) @@
    ("false" :> PyBool(FALSE)) @@
    ("0" :> PyInt(0)) @@
    ("\"\"" :> PyStr("")) @@
    ("{\"results\":[{\"name\":\"Oslo\"}]}" :> PyDict("results", 1)) @@
    ("[1]" :> PyList("1", 1)) @@
    ("true" :> PyBool(TRUE)) @@
    ("7" :> PyInt(7)) @@
    ("\"Oslo\"" :> PyStr("Oslo"))

Decodable(body) == body \in DOMAIN JsonText

\* --------------------------------------------------------------- arguments
NoArgs ==
    [tool |-> "", latitude |-> 0, longitude |-> 0, forecast_days |-> 0,
     name |-> "", count |-> 0]

WeatherArgs(lat, lon) ==
    [tool |-> "get_current_weather", latitude |-> lat, longitude |-> lon,
     forecast_days |-> 0, name |-> "", count |-> 0]

ForecastArgs(lat, lon, days) ==
    [tool |-> "get_forecast", latitude |-> lat, longitude |-> lon,
     forecast_days |-> days, name |-> "", count |-> 0]

LocationArgs(name, count) ==
    [tool |-> "get_location", latitude |-> 0, longitude |-> 0,
     forecast_days |-> 0, name |-> name, count |-> count]

Latitudes == {0, 59}
Longitudes == {10}
Names == {"Oslo", "A&B"}
DayValues == (MinForecastDays - Margin)..(MaxForecastDays + Margin)
CountValues == (MinCount - Margin)..(MaxCount + Margin)

AllArgs ==
    {WeatherArgs(lat, lon) : lat \in Latitudes, lon \in Longitudes}
    \cup {ForecastArgs(59, 10, d) : d \in DayValues}
    \cup {LocationArgs(nm, k) : nm \in Names, k \in CountValues}

\* The arguments of test_tools.py, and one rejected call of each validated tool.
ConcArgs ==
    {WeatherArgs(59, 10), ForecastArgs(59, 10, 2), LocationArgs("Oslo", 3),
     ForecastArgs(59, 10, MaxForecastDays + 1), LocationArgs("Oslo", MinCount - 1)}

\* ------------------------------------------------- outcomes of the exchange
NoOutcome == [kind |-> "none", status |-> 0, body |-> ""]
HttpResponse(status, body) == [kind |-> "response", status |-> status, body |-> body]
TransportError(cls) == [kind |-> cls, status |-> 0, body |-> ""]

Statuses == {200, 201, 301, 404, 500}
Bodies == DOMAIN JsonText \cup {"<html>", ""}

AllOutcomes ==
    {HttpResponse(st, b) : st \in Statuses, b \in Bodies}
    \cup {TransportError("ConnectError"), TransportError("ReadTimeout")}

ConcOutcomes ==
    {HttpResponse(200, "{\"results\":[{\"name\":\"Oslo\"}]}"), HttpResponse(200, "[1]"),
     HttpResponse(200, "{}"), HttpResponse(500, "<html>"),
     TransportError("ReadTimeout")}

\* ------------------------------------------------------------ URL building
\* f"{latitude}" of a whole-degree float: 59.0 is written "59.0".
FormatFloat(x) == ToString(x) \o ".0"

\* httpx.QueryParams percent-encodes the values it is given.
PercentEncode(s) ==
    CASE s = "A&B" -> "A%26B"
      [] OTHER -> s

NoUrl == [base |-> "", path |-> "", query |-> <<>>]

CurrentWeatherUrl(latitude, longitude) ==
    [base |-> OPENMETEO_API_BASE, path |-> "/forecast",
     query |-> << <<"latitude", FormatFloat(latitude)>>,
                  <<"longitude", FormatFloat(longitude)>>,
                  <<"current", "temperature_2m,is_day,showers,cloud_cover,wind_speed_10m,wind_direction_10m,pressure_msl,snowfall,precipitation,relative_humidity_2m,apparent_temperature,rain,weather_code,surface_pressure,wind_gusts_10m">> >>]

ForecastUrl(latitude, longitude, forecast_days) ==
    [base |-> OPENMETEO_API_BASE, path |-> "/forecast",
     query |-> << <<"latitude", FormatFloat(latitude)>>,
                  <<"longitude", FormatFloat(longitude)>>,
                  <<"hourly", "temperature_2m,relative_humidity_2m,precipitation,weather_code,wind_speed_10m">>,
                  <<"timezone", "auto">>,
                  <<"forecast_days", ToString(forecast_days)>> >>]

LocationUrl(name, count) ==
    [base |-> GEOCODING_API_BASE, path |-> "/search",
     query |-> << <<"name", PercentEncode(name)>>,
                  <<"count", ToString(count)>>,
                  <<"language", "en">>,
                  <<"format", "json">> >>]

BuildUrl(a) ==
    CASE a.tool = "get_current_weather" -> CurrentWeatherUrl(a.latitude, a.longitude)
      [] a.tool = "get_forecast" -> ForecastUrl(a.latitude, a.longitude, a.forecast_days)
      [] a.tool = "get_location" -> LocationUrl(a.name, a.count)

\* The values a query string gives to a key.
Param(u, key) == {u.query[i][2] : i \in {j \in DOMAIN u.query : u.query[j][1] = key}}

\* ------------------------------------------------------ argument validation
ForecastDaysRejectedWide(forecast_days) ==
    forecast_days < MinForecastDays \/ forecast_days > MaxForecastDays + 1

\* get_forecast: if forecast_days < 1 or forecast_days > 16
ForecastDaysRejected(forecast_days) ==
    forecast_days < MinForecastDays \/ forecast_days > MaxForecastDays

CountRejectedStrict(count) == count <= MinCount \/ count > MaxCount

CountRejectedNegativeOnly(count) == count < 0 \/ count > MaxCount

\* get_location: if count < 1 or count > 10
CountRejected(count) == count < MinCount \/ count > MaxCount

Rejected(a) ==
    CASE a.tool = "get_forecast" -> ForecastDaysRejected(a.forecast_days)
      [] a.tool = "get_location" -> CountRejected(a.count)
      [] OTHER -> FALSE

ValidationString(tool) ==
    CASE tool = "get_forecast" -> "forecast_days must be between 1 and 16."
      [] tool = "get_location" -> "count must be between 1 and 10."

FailureString(tool) ==
    CASE tool = "get_current_weather" -> "Unable to fetch current weather data for this location."
      [] tool = "get_forecast" -> "Unable to fetch forecast data for this location."
      [] tool = "get_location" -> "Unable to fetch location data."

\* ------------------------------------------------ make_openmeteo_request
\* The result of a block of code: the value it returns, or the class of the
\* exception it raises.
Returns(v) == [raise |-> "", value |-> v]
Raises(cls) == [raise |-> cls, value |-> Unset]

\* response.raise_for_status() passes the 2xx responses only.
IsSuccess(status) == status \in 200..299

\* The body of the try: await client.get(...); raise_for_status(); json().
TryBlock(o) ==
    IF o.kind # "response" THEN Raises(o.kind)
    ELSE IF ~IsSuccess(o.status) THEN Raises("HTTPStatusError")
    ELSE IF ~Decodable(o.body) THEN Raises("JSONDecodeError")
    ELSE Returns(JsonText[o.body])

\* The classes of the exceptions the try block can raise; each derives from
\* Exception.
ExceptionSubclasses == {"ConnectError", "ReadTimeout", "HTTPStatusError", "JSONDecodeError"}

CaughtHttpErrorOnly(cls) == cls \in {"ConnectError", "ReadTimeout", "HTTPStatusError"}

CaughtStatusErrorOnly(cls) == cls = "HTTPStatusError"

\* except Exception:
Caught(cls) == cls \in ExceptionSubclasses

\* The helper, given the outcome of the exchange its GET met.
make_openmeteo_request(o) ==
    LET t == TryBlock(o)
    IN  IF t.raise = "" THEN t
        ELSE IF Caught(t.raise) THEN Returns(None)
        ELSE t

ClientLeftOpen(cl) == cl

\* Leaving `async with httpx.AsyncClient() as client:` closes the client,
\* whether the block returned or raised.
AExit(cl) == "closed"

ToolReturnData(tool, data) == data

\* The tail of each tool: if not data: return "<failure string>"; return data
ToolReturn(tool, data) ==
    IF ~Truthy(data) THEN PyStr(FailureString(tool)) ELSE data

\* ------------------------------------------------------------------- state
VARIABLES
    pc,        \* where each call's coroutine stands
    args,      \* the arguments each call was invoked with
    url,       \* the URL each call built
    client,    \* the httpx.AsyncClient of each call: "none", "open", "closed"
    gets,      \* the URLs each call has issued a GET for, in order
    wire,      \* the requests sent and not yet answered
    inbox,     \* the answers produced and not yet read by their call
    answered,  \* the outcome the upstream gave to each call's request
    data,      \* the local `data` of each tool
    result     \* the value each call returned to its caller

vars == <<pc, args, url, client, gets, wire, inbox, answered, data, result>>

Init ==
    /\ pc = [c \in Calls |-> "idle"]
    /\ args = [c \in Calls |-> NoArgs]
    /\ url = [c \in Calls |-> NoUrl]
    /\ client = [c \in Calls |-> "none"]
    /\ gets = [c \in Calls |-> <<>>]
    /\ wire = {}
    /\ inbox = {}
    /\ answered = [c \in Calls |-> NoOutcome]
    /\ data = [c \in Calls |-> Unset]
    /\ result = [c \in Calls |-> Unset]

\* A tool is invoked: it validates its arguments and either returns the
\* validation string at once, or builds its URL, enters
\* make_openmeteo_request and opens the client.
Invoke(c, a) ==
    /\ pc[c] = "idle"
    /\ args' = [args EXCEPT ![c] = a]
    /\ IF Rejected(a)
       THEN /\ result' = [result EXCEPT ![c] = PyStr(ValidationString(a.tool))]
            /\ pc' = [pc EXCEPT ![c] = "returned"]
            /\ UNCHANGED <<url, client>>
       ELSE /\ url' = [url EXCEPT ![c] = BuildUrl(a)]
            /\ client' = [client EXCEPT ![c] = "open"]
            /\ pc' = [pc EXCEPT ![c] = "connected"]
            /\ UNCHANGED result
    /\ UNCHANGED <<gets, wire, inbox, answered, data>>

GetEnabledAgainAfterExit(p) == p \in {"connected", "exited"}

\* client.get is reached once, straight after the client is entered.
GetEnabled(p) == p = "connected"

\* response = await client.get(url, headers=headers, timeout=30.0): the
\* request leaves on the call's own client and the coroutine is suspended.
SendGet(c) ==
    /\ GetEnabled(pc[c])
    /\ gets' = [gets EXCEPT ![c] = Append(@, url[c])]
    /\ wire' = wire \cup {[client |-> c, url |-> url[c]]}
    /\ pc' = [pc EXCEPT ![c] = "awaiting"]
    /\ UNCHANGED <<args, url, client, inbox, answered, data, result>>

\* The exchange of a request comes to its outcome: a response, a transport
\* error, or the expiry of the timeout.
Upstream(m, o) ==
    /\ m \in wire
    /\ wire' = wire \ {m}
    /\ inbox' = inbox \cup {[client |-> m.client, outcome |-> o]}
    /\ answered' = [answered EXCEPT ![m.client] = o]
    /\ UNCHANGED <<pc, args, url, client, gets, data, result>>

DeliversToAnyCall(c, msg) == TRUE

\* An answer resumes the call whose client sent the request.
Delivers(c, msg) == msg.client = c

\* The awaited GET completes: the rest of the try block runs, the except
\* clause maps an exception to None, and the async with releases the client.
\* An exception that is not caught leaves the tool and reaches the caller.
Receive(c) ==
    /\ pc[c] = "awaiting"
    /\ \E msg \in inbox :
        /\ Delivers(c, msg)
        /\ inbox' = inbox \ {msg}
        /\ LET r == make_openmeteo_request(msg.outcome)
           IN  IF r.raise = ""
               THEN /\ data' = [data EXCEPT ![c] = r.value]
                    /\ pc' = [pc EXCEPT ![c] = "exited"]
               ELSE /\ pc' = [pc EXCEPT ![c] = "raised"]
                    /\ UNCHANGED data
    /\ client' = [client EXCEPT ![c] = AExit(@)]
    /\ UNCHANGED <<args, url, gets, wire, answered, result>>

\* The tool maps `data` to its return value.
Return(c) ==
    /\ pc[c] = "exited"
    /\ result' = [result EXCEPT ![c] = ToolReturn(args[c].tool, data[c])]
    /\ pc' = [pc EXCEPT ![c] = "returned"]
    /\ UNCHANGED <<args, url, client, gets, wire, inbox, answered, data>>

\* One call, over every argument and every outcome of the exchange.
Next ==
    \/ \E a \in AllArgs : Invoke(1, a)
    \/ SendGet(1)
    \/ \E m \in wire, o \in AllOutcomes : Upstream(m, o)
    \/ Receive(1)
    \/ Return(1)

Spec == Init /\ [][Next]_vars

\* The event loop resumes a coroutine that can run, and the 30 second timeout
\* brings every exchange to an outcome.
FairSpec ==
    /\ Spec
    /\ WF_vars(SendGet(1))
    /\ WF_vars(\E m \in wire, o \in AllOutcomes : Upstream(m, o))
    /\ WF_vars(Receive(1))
    /\ WF_vars(Return(1))

\* Several calls in flight at once, their steps interleaved.
ConcNext ==
    \/ \E c \in Calls, a \in ConcArgs : Invoke(c, a)
    \/ \E c \in Calls : SendGet(c)
    \/ \E m \in wire, o \in ConcOutcomes : Upstream(m, o)
    \/ \E c \in Calls : Receive(c)
    \/ \E c \in Calls : Return(c)

ConcSpec == Init /\ [][ConcNext]_vars

\* ------------------------------------------------------------------ claims
\* What the claims speak of, stated from their own words.
Started(c) == pc[c] # "idle"
Returned(c) == pc[c] = "returned"

\* The upstream answered with a 2xx status and a body that decodes as JSON.
ExchangeSucceeded(o) ==
    o.kind = "response" /\ o.status >= 200 /\ o.status < 300 /\ o.body \in DOMAIN JsonText

\* The exchange ended in a connection error, a timeout, a non-2xx status or
\* an undecodable body.
ExchangeFailed(o) == o.kind # "none" /\ ~ExchangeSucceeded(o)

DaysOutOfRange(c) ==
    args[c].tool = "get_forecast" /\ (args[c].forecast_days < 1 \/ args[c].forecast_days > 16)

CountOutOfRange(c) ==
    args[c].tool = "get_location" /\ (args[c].count < 1 \/ args[c].count > 10)

DesignatedFailure(tool) ==
    CASE tool = "get_current_weather" -> PyStr("Unable to fetch current weather data for this location.")
      [] tool = "get_forecast" -> PyStr("Unable to fetch forecast data for this location.")
      [] tool = "get_location" -> PyStr("Unable to fetch location data.")

NoNetwork(c) ==
    /\ client[c] = "none"
    /\ gets[c] = <<>>
    /\ \A m \in wire : m.client # c
    /\ answered[c] = NoOutcome

\* C1: whenever the upstream answers 2xx with a body that decodes as JSON,
\* the tool returns exactly the decoded value, for every JSON value (an empty
\* object, an empty array, null, false, 0 and an empty string included).
C1_ReturnsDecodedJson ==
    \A c \in Calls :
        Returned(c) /\ ExchangeSucceeded(answered[c])
            => result[c] = JsonText[answered[c].body]

\* C2: for every forecast_days outside 1..16, get_forecast returns exactly
\* "forecast_days must be between 1 and 16.", and at no point of the call is a
\* client opened or a GET issued.
C2_ForecastDaysRejectedWithoutNetwork ==
    \A c \in Calls :
        Started(c) /\ DaysOutOfRange(c)
            => /\ Returned(c)
               /\ result[c] = PyStr("forecast_days must be between 1 and 16.")
               /\ NoNetwork(c)

C2_Witness ==
    \E c \in Calls :
        /\ Returned(c) /\ args[c].tool = "get_forecast"
        /\ args[c].forecast_days = 17
        /\ IsStr(result[c])

\* C3: for every count outside 1..10, get_location returns exactly
\* "count must be between 1 and 10.", and at no point of the call is a client
\* opened or a GET issued.
C3_CountRejectedWithoutNetwork ==
    \A c \in Calls :
        Started(c) /\ CountOutOfRange(c)
            => /\ Returned(c)
               /\ result[c] = PyStr("count must be between 1 and 10.")
               /\ NoNetwork(c)

C3_Witness ==
    \E c \in Calls :
        /\ Returned(c) /\ args[c].tool = "get_location"
        /\ args[c].count = 0
        /\ IsStr(result[c])

C5_SingleGet ==
    /\ [](\A c \in Calls :
            /\ Len(gets[c]) <= 1
            /\ pc[c] \in {"awaiting", "exited", "returned"}
                   /\ ~DaysOutOfRange(c) /\ ~CountOutOfRange(c)
                => Len(gets[c]) = 1)
    /\ [][\A c \in Calls : ExchangeFailed(answered[c]) => gets'[c] = gets[c]]_vars

C5_Witness ==
    \E c \in Calls :
        /\ Returned(c)
        /\ answered[c] = TransportError("ReadTimeout")
        /\ Len(gets[c]) = 1

\* What a call returns, told from its own arguments and the outcome of its
\* own exchange alone.
OwnResult(c) ==
    IF DaysOutOfRange(c) THEN PyStr("forecast_days must be between 1 and 16.")
    ELSE IF CountOutOfRange(c) THEN PyStr("count must be between 1 and 10.")
    ELSE IF ExchangeSucceeded(answered[c]) /\ Truthy(JsonText[answered[c].body])
         THEN JsonText[answered[c].body]
    ELSE DesignatedFailure(args[c].tool)

\* The state that belongs to one call.
Local(c) == <<pc[c], args[c], url[c], client[c], gets[c], data[c], result[c]>>

\* C6: with several calls in flight, under every interleaving, the value a
\* call returns is determined by its own arguments and the outcome of its own
\* exchange; no call returns the response or the failure of another, and no
\* step of one call touches the state of another.
C6_CallsIsolated ==
    /\ [](\A c \in Calls : Returned(c) => result[c] = OwnResult(c))
    /\ [](\A msg \in inbox : answered[msg.client] = msg.outcome /\ pc[msg.client] = "awaiting")
    /\ [][\A c, d \in Calls :
            c # d => ~(Local(c)' # Local(c) /\ Local(d)' # Local(d))]_vars

C6_Witness ==
    \E c, d \in Calls :
        /\ c # d
        /\ Returned(c) /\ Returned(d)
        /\ args[c] = args[d]
        /\ ExchangeSucceeded(answered[c]) /\ ExchangeFailed(answered[d])
        /\ result[c] # result[d]

\* C7: in every state in which a call has returned a value, the client it
\* opened is closed, on the success path and on every failure path; a call
\* that fails validation never opens a client.
C7_ClientReleased ==
    \A c \in Calls :
        /\ Returned(c) =>
              client[c] = IF DaysOutOfRange(c) \/ CountOutOfRange(c) THEN "none" ELSE "closed"
        /\ Started(c) /\ (DaysOutOfRange(c) \/ CountOutOfRange(c)) => client[c] = "none"
        /\ client[c] = "open" => pc[c] \in {"connected", "awaiting"}

C7_Witness ==
    \E c \in Calls :
        /\ Returned(c)
        /\ ExchangeSucceeded(answered[c])
        /\ result[c] = JsonText[answered[c].body]
        /\ client[c] = "closed"

\* C8: every started call eventually returns a result, the decoded body or a
\* sentinel string; when the timeout expires the result is the failure
\* sentinel of the operation.
C8_EventuallyReturns ==
    /\ \A c \in Calls : Started(c) ~> (Returned(c) /\ result[c] # Unset)
    /\ [](\A c \in Calls :
            Returned(c) /\ answered[c] = TransportError("ReadTimeout")
                => result[c] = DesignatedFailure(args[c].tool))

C8_Witness ==
    \E c \in Calls :
        /\ Returned(c)
        /\ answered[c] = TransportError("ReadTimeout")
        /\ result[c] = DesignatedFailure(args[c].tool)

Requested(c) == pc[c] \in {"awaiting", "exited", "returned"}

\* C9: the bounds are inclusive.  For every forecast_days in 1..16 the
\* validation string is never returned and the GET goes to the forecast
\* endpoint with forecast_days equal to the argument and timezone=auto; for
\* every count in 1..10 the validation string is never returned and the GET
\* goes to the geocoding search endpoint with count equal to the argument.
C9_InRangeAccepted ==
    \A c \in Calls :
        /\ Started(c) /\ args[c].tool = "get_forecast"
              /\ args[c].forecast_days >= 1 /\ args[c].forecast_days <= 16
            => /\ result[c] # PyStr("forecast_days must be between 1 and 16.")
               /\ Returned(c) => Len(gets[c]) = 1
               /\ Requested(c) =>
                     /\ Len(gets[c]) = 1
                     /\ gets[c][1].base = "https://api.open-meteo.com/v1"
                     /\ gets[c][1].path = "/forecast"
                     /\ Param(gets[c][1], "forecast_days") = {ToString(args[c].forecast_days)}
                     /\ Param(gets[c][1], "timezone") = {"auto"}
        /\ Started(c) /\ args[c].tool = "get_location"
              /\ args[c].count >= 1 /\ args[c].count <= 10
            => /\ result[c] # PyStr("count must be between 1 and 10.")
               /\ Returned(c) => Len(gets[c]) = 1
               /\ Requested(c) =>
                     /\ Len(gets[c]) = 1
                     /\ gets[c][1].base = "https://geocoding-api.open-meteo.com/v1"
                     /\ gets[c][1].path = "/search"
                     /\ Param(gets[c][1], "count") = {ToString(args[c].count)}

C9_Witness ==
    \E c \in Calls :
        /\ Returned(c)
        /\ args[c].tool = "get_location" /\ args[c].count = 1
        /\ Param(gets[c][1], "count") = {"1"}

CallFailed(c) ==
    DaysOutOfRange(c) \/ CountOutOfRange(c) \/ ExchangeFailed(answered[c])

\* C10, as claimed: the result is a plain string if and only if the call
\* failed (validation or exchange).
C10_StringIffFailed ==
    \A c \in Calls : Returned(c) => (IsStr(result[c]) <=> CallFailed(c))

\* C10, amended: the result is a plain string if and only if the call
\* failed, or the body decoded to a JSON string, or the body decoded to a
\* value that Python's truth test rejects.
C10_StringIffFailedOrStringOrFalsyBody ==
    \A c \in Calls :
        Returned(c) =>
            (IsStr(result[c]) <=>
                \/ CallFailed(c)
                \/ IsStr(JsonText[answered[c].body])
                \/ ~Truthy(JsonText[answered[c].body]))

C10_Witness ==
    \E c \in Calls :
        /\ Returned(c)
        /\ answered[c] = HttpResponse(200, "\"Oslo\"")
        /\ result[c] = PyStr("Oslo")

====
